---- MODULE Spec2Model ----
(***************************************************************************)
(* Serverless task scheduler: the executor Lambda (executor_handler.py),   *)
(* the CRUD Lambda (api_handler.py) and the DynamoDB task table they       *)
(* share.  Time is counted in half-hour slots; a timestamp string is the   *)
(* tuple <<year, month, day, slot, suffix>>, a datetime object the record  *)
(* [year, month, day, slot, tz].                                           *)
(***************************************************************************)
EXTENDS Integers, Sequences, FiniteSets, TLC

(* ------------------------------ bounds -------------------------------- *)

\* Tasks created through POST /tasks.
MaxTasks == 2
\* Executor invocations (ticks) started over a run.
MaxInvocations == 2
\* Disturbances over a run: each DynamoDB operation that raises ClientError and
\* each DELETE /tasks/{task_id} request counts once, invocations that overlap
\* count twice.
MaxDisturbances == 2

\* Concurrent executor invocations (Lambda execution environments).
Ticks == {"t1", "t2"}

(* --------------------------- time and strings -------------------------- *)

SlotsPerDay == 2 * 24

\* timedelta(hours=5, minutes=30), in half-hour slots.
OffsetSlots == 11

IsLeap(y) == (y % 4 = 0 /\ y % 100 # 0) \/ y % 400 = 0

DaysInMonth(y, m) ==
    IF m = 2 THEN (IF IsLeap(y) THEN 29 ELSE 28)
    ELSE IF m \in {4, 6, 9, 11} THEN 30 ELSE 31

\* The datetime the wall clock shows at slot 0.
Epoch == [year |-> 2024, month |-> 1, day |-> 23, slot |-> 0, tz |-> "naive"]

NextDay(dt) ==
    IF dt.day < DaysInMonth(dt.year, dt.month) THEN [dt EXCEPT !.day = @ + 1]
    ELSE IF dt.month < 12 THEN [dt EXCEPT !.day = 1, !.month = @ + 1]
    ELSE [dt EXCEPT !.day = 1, !.month = 1, !.year = @ + 1]

RECURSIVE AddDays(_, _)
AddDays(dt, k) == IF k = 0 THEN dt ELSE AddDays(NextDay(dt), k - 1)

\* datetime + timedelta (k slots).
PlusTimedelta(dt, k) ==
    LET total == dt.slot + k
    IN  AddDays([dt EXCEPT !.slot = total % SlotsPerDay], total \div SlotsPerDay)

\* datetime.utcnow() when the wall clock reads c slots past the epoch.
UtcNow(c) == PlusTimedelta(Epoch, c)

\* dt.strftime("%Y-%m-%dT%H:%M:%SZ"): the literal Z is appended whatever the tz.
Strftime(dt) == <<dt.year, dt.month, dt.day, dt.slot, "Z">>

\* dt.isoformat(), with '+00:00' for an aware datetime.
Isoformat(dt) ==
    <<dt.year, dt.month, dt.day, dt.slot, IF dt.tz = "utc" THEN "+00:00" ELSE "">>

\* datetime.utcnow().isoformat() + 'Z'
IsoNowZ(c) == [Isoformat(UtcNow(c)) EXCEPT ![5] = @ \o "Z"]

\* s.replace('Z', '+00:00')
ReplaceZ(s) == IF s[5] = "Z" THEN [s EXCEPT ![5] = "+00:00"] ELSE s

\* s.replace('+00:00', 'Z')
ReplaceOffset(s) == IF s[5] = "+00:00" THEN [s EXCEPT ![5] = "Z"] ELSE s

\* datetime.fromisoformat(s) of a string with suffix '+00:00' or none.
Fromisoformat(s) ==
    [year |-> s[1], month |-> s[2], day |-> s[3], slot |-> s[4],
     tz |-> IF s[5] = "+00:00" THEN "utc" ELSE "naive"]

\* datetime.fromisoformat(s) returns: s ends with '+00:00' or with the seconds.
\* Any other ending raises ValueError.
IsoParses(s) == s[5] \in {"+00:00", ""}

\* Byte order of the suffixes that follow the 19 fixed-width characters.
SuffixRank(x) == IF x = "" THEN 0 ELSE IF x = "+00:00" THEN 1 ELSE 2

\* a <= b as DynamoDB compares two string sort keys: byte by byte.
StrLeq(a, b) ==
    \/ a[1] < b[1]
    \/ a[1] = b[1] /\ a[2] < b[2]
    \/ a[1] = b[1] /\ a[2] = b[2] /\ a[3] < b[3]
    \/ a[1] = b[1] /\ a[2] = b[2] /\ a[3] = b[3] /\ a[4] < b[4]
    \/ a[1] = b[1] /\ a[2] = b[2] /\ a[3] = b[3] /\ a[4] = b[4]
       /\ SuffixRank(a[5]) <= SuffixRank(b[5])

(* ------------------------------ the table ------------------------------ *)

\* An item is a function from attribute names to values; the table is a set
\* of items no two of which share the primary key (task_id, run_at).
Lookup(tbl, tid, ra) == {r \in tbl : r.task_id = tid /\ r.run_at = ra}

SetAttr(r, k, v) == [a \in DOMAIN r \cup {k} |-> IF a = k THEN v ELSE r[a]]

\* A put that adds the item and leaves the item of that key in place.
PutItemNoReplace(tbl, item) == tbl \cup {item}

\* table.put_item(Item=item): insert, or replace the whole item of that key.
PutItem(tbl, item) == (tbl \ Lookup(tbl, item.task_id, item.run_at)) \cup {item}

\* table.delete_item(Key=...)
DeleteItem(tbl, tid, ra) == tbl \ Lookup(tbl, tid, ra)

\* update_item whose expression leaves error_message out.
UpdateItemNoError(tbl, tid, ra, status, now, error_message) ==
    LET old  == Lookup(tbl, tid, ra)
        base == IF old = {} THEN [task_id |-> tid, run_at |-> ra]
                ELSE CHOOSE r \in old : TRUE
    IN  (tbl \ old) \cup {SetAttr(SetAttr(base, "status", status), "updated_at", now)}

\* update_item whose expression sets error_message on every write.
UpdateItemAlwaysMessage(tbl, tid, ra, status, now, error_message) ==
    LET old  == Lookup(tbl, tid, ra)
        base == IF old = {} THEN [task_id |-> tid, run_at |-> ra]
                ELSE CHOOSE r \in old : TRUE
        set1 == SetAttr(SetAttr(base, "status", status), "updated_at", now)
    IN  (tbl \ old) \cup {SetAttr(set1, "error_message", error_message)}

\* table.update_item(Key, "SET #status = :status, updated_at = :updated_at
\* [, error_message = :error_message]") with no ConditionExpression: the
\* attributes are set on the item of that key, which is created when absent.
UpdateItem(tbl, tid, ra, status, now, error_message) ==
    LET old  == Lookup(tbl, tid, ra)
        base == IF old = {} THEN [task_id |-> tid, run_at |-> ra]
                ELSE CHOOSE r \in old : TRUE
        set1 == SetAttr(SetAttr(base, "status", status), "updated_at", now)
        set2 == IF error_message # "" THEN SetAttr(set1, "error_message", error_message)
                ELSE set1
    IN  (tbl \ old) \cup {set2}

\* The query without its condition on run_at.
QueryDueAnyTime(tbl, st, current_time) == {r \in tbl : r.status = st}

\* The query without its condition on the status.
QueryDueAnyStatus(tbl, st, current_time) ==
    {r \in tbl : StrLeq(r.run_at, current_time)}

\* Query of status-index: status = st AND run_at <= current_time.
QueryDue(tbl, st, current_time) ==
    {r \in tbl : r.status = st /\ StrLeq(r.run_at, current_time)}

\* The orders in which the index can return a set of items: ascending by the
\* sort key run_at, items of equal run_at in any order.
Orderings(S) ==
    {q \in [1..Cardinality(S) -> S] :
        /\ \A i, j \in 1..Cardinality(S) : i # j => q[i] # q[j]
        /\ \A i, j \in 1..Cardinality(S) : i < j => StrLeq(q[i].run_at, q[j].run_at)}

(* ------------------------------- inputs -------------------------------- *)

\* run_at values of the requests: 2024-01-24T04:00:00Z and 2024-01-31T04:00:00Z.
Jan24 == <<2024, 1, 24, 8, "Z">>
Jan31 == <<2024, 1, 31, 8, "Z">>

WithUrl == [url |-> "https://example.com/ok"]
NoUrl == [data |-> "d"]
MessagePayload == [recipient |-> "r", message |-> "m"]

\* Request bodies of POST /tasks.
Bodies ==
    {[action |-> "webhook", payload |-> WithUrl, run_at |-> Jan24],
     [action |-> "webhook", payload |-> NoUrl, run_at |-> Jan24],
     [action |-> "email", payload |-> MessagePayload, run_at |-> Jan24, recurrence |-> "daily"],
     [action |-> "message", payload |-> MessagePayload, run_at |-> Jan24, recurrence |-> "daily"],
     [action |-> "message", payload |-> MessagePayload, run_at |-> Jan31, recurrence |-> "monthly"],
     [action |-> "message", payload |-> MessagePayload, run_at |-> Jan31, recurrence |-> "yearly"]}

\* Readings of the wall clock, in slots past the epoch: 2024-01-23T00:00,
\* 01-24T00:00 and 01-31T05:00.  They are hours apart and an invocation of
\* either Lambda is cut off after 60 seconds at most, so the clock does not move
\* from one reading to the next during an invocation.
ClockInstants == {0, SlotsPerDay, 8 * SlotsPerDay + 10}

VARIABLES
    store,        \* the DynamoDB table
    clock,        \* the wall clock (UTC), slots past the epoch
    nextId,       \* uuid4 values handed out so far
    invocations,  \* executor invocations started so far
    faults,       \* DynamoDB errors raised so far
    pc,           \* per invocation slot: where the handler is
    inv,          \* per invocation slot: the invocation's number
    utcnow,       \* per invocation slot: what datetime.utcnow() returned at line 28
    tasks,        \* per invocation slot: response['Items']
    idx,          \* per invocation slot: position of the for loop
    err,          \* per invocation slot: str(e) of the exception being handled
    result,       \* per invocation slot: what the handler returned
    pickups,      \* <<task_id, run_at, invocation>> of every 'running' write done
    dispatches,   \* <<task_id, run_at, invocation, report>> of every dispatch
    deletes,      \* DELETE requests served so far
    overlapped    \* whether two invocations have ever been in progress at once

vars == <<store, clock, nextId, invocations, faults, pc, inv, utcnow, tasks, idx,
          err, result, pickups, dispatches, deletes, overlapped>>

Disturbances == faults + deletes + (IF overlapped THEN 2 ELSE 0)

CanDisturb(cost) == Disturbances + cost <= MaxDisturbances

\* An executor invocation is in progress in slot t.
Active(t) == pc[t] \notin {"idle", "done"}

\* An invocation has built its return value and is about to end.  Ending it
\* touches nothing another invocation or request reads, so it is taken as the
\* next step.
Returning == \E t \in Ticks : pc[t] = "done"

(* ------------------------ api_handler.py (CRUD) ------------------------ *)

\* schedule_task's validation: the three required fields are in the body and
\* run_at parses as ISO-8601.  A request that fails it gets a 400 and changes
\* nothing.
RequiredFields == {"action", "payload", "run_at"}

\* schedule_task: POST /tasks.
ScheduleTask(body) ==
    /\ ~Returning
    /\ nextId < MaxTasks
    /\ RequiredFields \subseteq DOMAIN body
    /\ IsoParses(ReplaceZ(body.run_at))
    /\ nextId' = nextId + 1
    /\ LET current_time == IsoNowZ(clock)
           base == [task_id |-> <<nextId + 1>>,
                    action |-> body.action,
                    payload |-> body.payload,
                    run_at |-> body.run_at,
                    status |-> "scheduled",
                    created_at |-> current_time,
                    updated_at |-> current_time]
           task_item == IF "recurrence" \in DOMAIN body
                        THEN SetAttr(base, "recurrence", body.recurrence)
                        ELSE base
       IN  \/ /\ store' = PutItem(store, task_item)
              /\ UNCHANGED faults
           \/ /\ CanDisturb(1)           \* put_item raises ClientError: 500
              /\ faults' = faults + 1
              /\ UNCHANGED store
    /\ UNCHANGED <<clock, invocations, pc, inv, utcnow, tasks, idx, err, result,
                   pickups, dispatches, deletes, overlapped>>

\* delete_task: DELETE /tasks/{task_id}: the first item the query by task_id
\* returns (lowest run_at) is deleted.
DeleteTask(task_id) ==
    LET found == {r \in store : r.task_id = task_id}
    IN  /\ ~Returning
        /\ found # {}
        /\ CanDisturb(1)
        /\ deletes' = deletes + 1
        /\ LET first == CHOOSE r \in found : \A o \in found : StrLeq(r.run_at, o.run_at)
           IN  store' = DeleteItem(store, task_id, first.run_at)
        /\ UNCHANGED <<clock, nextId, invocations, faults, pc, inv, utcnow, tasks,
                       idx, err, result, pickups, dispatches, overlapped>>

(* ---------------------- executor_handler.py (tick) --------------------- *)

\* The string the handler compares run_at against (line 28).
CurrentTime(now) == Strftime(PlusTimedelta(UtcNow(now), OffsetSlots))

\* The invocation slots are taken in order: a new invocation gets the first
\* slot in which none is in progress.
FreeBefore(u, t) == u = "t1" /\ t = "t2"

\* The item the for loop of handler is at.
Task(t) == tasks[t][idx[t]]

\* A summary that counts the tasks whose dispatch succeeded.
LoopNextCountsSuccesses(t, i) ==
    /\ idx' = [idx EXCEPT ![t] = i + 1]
    /\ IF i < Len(tasks[t])
       THEN /\ pc' = [pc EXCEPT ![t] = "set_running"]
            /\ UNCHANGED result
       ELSE /\ pc' = [pc EXCEPT ![t] = "done"]
            /\ result' = [result EXCEPT ![t] =
                             [statusCode |-> 200,
                              processed |-> Cardinality({d \in dispatches :
                                                d[3] = inv[t] /\ d[4] = "ok"}),
                              timestamp |-> CurrentTime(utcnow[t])]]

\* execute_task returned for item i: the loop goes on, or the handler returns
\* its summary.
LoopNext(t, i) ==
    /\ idx' = [idx EXCEPT ![t] = i + 1]
    /\ IF i < Len(tasks[t])
       THEN /\ pc' = [pc EXCEPT ![t] = "set_running"]
            /\ UNCHANGED result
       ELSE /\ pc' = [pc EXCEPT ![t] = "done"]
            /\ result' = [result EXCEPT ![t] =
                             [statusCode |-> 200, processed |-> Len(tasks[t]),
                              timestamp |-> CurrentTime(utcnow[t])]]

\* handler, lines 26-46: read the clock, query the due tasks.
TickStart(t) ==
    /\ ~Returning
    /\ pc[t] = "idle"
    /\ \A u \in Ticks : FreeBefore(u, t) => Active(u)
    /\ invocations < MaxInvocations
    /\ invocations' = invocations + 1
    /\ inv' = [inv EXCEPT ![t] = invocations + 1]
    /\ utcnow' = [utcnow EXCEPT ![t] = clock]
    /\ err' = [err EXCEPT ![t] = ""]
    /\ overlapped' = (overlapped \/ \E u \in Ticks \ {t} : Active(u))
    /\ (\E u \in Ticks \ {t} : Active(u)) => (overlapped \/ CanDisturb(2))
    /\ \/ /\ \E q \in Orderings(QueryDue(store, "scheduled", CurrentTime(clock))) :
                /\ tasks' = [tasks EXCEPT ![t] = q]
                /\ IF Len(q) = 0
                   THEN /\ pc' = [pc EXCEPT ![t] = "done"]
                        /\ result' = [result EXCEPT ![t] =
                                         [statusCode |-> 200, processed |-> 0,
                                          timestamp |-> CurrentTime(clock)]]
                   ELSE /\ pc' = [pc EXCEPT ![t] = "set_running"]
                        /\ result' = [result EXCEPT ![t] = [statusCode |-> 0]]
          /\ idx' = [idx EXCEPT ![t] = 1]
          /\ UNCHANGED faults
       \/ /\ CanDisturb(1)               \* table.query raises: line 59
          /\ faults' = faults + 1
          /\ tasks' = [tasks EXCEPT ![t] = <<>>]
          /\ idx' = [idx EXCEPT ![t] = 1]
          /\ pc' = [pc EXCEPT ![t] = "done"]
          /\ result' = [result EXCEPT ![t] = [statusCode |-> 500, error |-> "ClientError"]]
    /\ UNCHANGED <<store, clock, nextId, pickups, dispatches, deletes>>

\* execute_task going on to the dispatch when its 'running' write has raised.
SetRunningIgnoreFailure(t) ==
    /\ ~Returning
    /\ pc[t] = "set_running"
    /\ \/ /\ store' = UpdateItem(store, Task(t).task_id, Task(t).run_at, "running",
                                 IsoNowZ(clock), "")
          /\ pickups' = pickups \cup {<<Task(t).task_id, Task(t).run_at, inv[t]>>}
          /\ UNCHANGED faults
       \/ /\ CanDisturb(1)
          /\ faults' = faults + 1
          /\ UNCHANGED <<store, pickups>>
    /\ pc' = [pc EXCEPT ![t] = "dispatch"]
    /\ UNCHANGED <<clock, nextId, invocations, inv, utcnow, tasks, idx, err, result,
                   dispatches, deletes, overlapped>>

\* update_task_status as execute_task calls it: the write is done, or raises.
\* ok: where execute_task goes when the write returns; bad: when it raises.
SetRunning(t) ==
    /\ ~Returning
    /\ pc[t] = "set_running"
    /\ \/ /\ store' = UpdateItem(store, Task(t).task_id, Task(t).run_at, "running",
                                 IsoNowZ(clock), "")
          /\ pickups' = pickups \cup {<<Task(t).task_id, Task(t).run_at, inv[t]>>}
          /\ pc' = [pc EXCEPT ![t] = "dispatch"]
          /\ UNCHANGED <<faults, err>>
       \/ /\ CanDisturb(1)
          /\ faults' = faults + 1
          /\ err' = [err EXCEPT ![t] = "ClientError"]
          /\ pc' = [pc EXCEPT ![t] = "except"]
          /\ UNCHANGED <<store, pickups>>
    /\ UNCHANGED <<clock, nextId, invocations, inv, utcnow, tasks, idx, result,
                   dispatches, deletes, overlapped>>

\* execute_task, lines 83-90, with execute_webhook and execute_message.  The
\* report is "ok" when the strategy returned and the exception's text when it
\* raised; a request went out exactly for the reports "ok" and "HTTPError".
Dispatch(t) ==
    /\ ~Returning
    /\ pc[t] = "dispatch"
    /\ LET task == Task(t)
           Report(r) == dispatches' = dispatches \cup {<<task.task_id, task.run_at, inv[t], r>>}
       IN  IF task.action = "webhook"
           THEN IF "url" \notin DOMAIN task.payload
                THEN /\ Report("Webhook URL is required")
                     /\ err' = [err EXCEPT ![t] = "Webhook URL is required"]
                     /\ pc' = [pc EXCEPT ![t] = "except"]
                ELSE \/ /\ Report("ok")
                        /\ pc' = [pc EXCEPT ![t] = "set_completed"]
                        /\ UNCHANGED err
                     \/ /\ Report("HTTPError")
                        /\ err' = [err EXCEPT ![t] = "HTTPError"]
                        /\ pc' = [pc EXCEPT ![t] = "except"]
           ELSE IF task.action = "message"
           THEN /\ Report("ok")
                /\ pc' = [pc EXCEPT ![t] = "set_completed"]
                /\ UNCHANGED err
           ELSE /\ Report("Unsupported action type")
                /\ pc' = [pc EXCEPT ![t] = "set_failed_unsupported"]
                /\ UNCHANGED err
    /\ UNCHANGED <<store, clock, nextId, invocations, faults, inv, utcnow, tasks,
                   idx, result, pickups, deletes, overlapped>>

\* The unknown-action branch returning without its status write.
SetFailedUnsupportedNoWrite(t) ==
    /\ ~Returning
    /\ pc[t] = "set_failed_unsupported"
    /\ LoopNext(t, idx[t])
    /\ UNCHANGED <<store, clock, nextId, invocations, faults, inv, utcnow, tasks, err,
                   pickups, dispatches, deletes, overlapped>>

\* execute_task, lines 88-90: unknown action.
SetFailedUnsupported(t) ==
    /\ ~Returning
    /\ pc[t] = "set_failed_unsupported"
    /\ \/ /\ store' = UpdateItem(store, Task(t).task_id, Task(t).run_at, "failed",
                                 IsoNowZ(clock),
                                 "Unsupported action type: " \o Task(t).action)
          /\ LoopNext(t, idx[t])
          /\ UNCHANGED <<faults, err>>
       \/ /\ CanDisturb(1)
          /\ faults' = faults + 1
          /\ err' = [err EXCEPT ![t] = "ClientError"]
          /\ pc' = [pc EXCEPT ![t] = "except"]
          /\ UNCHANGED <<store, idx, result>>
    /\ UNCHANGED <<clock, nextId, invocations, inv, utcnow, tasks, pickups,
                   dispatches, deletes, overlapped>>

\* execute_task, lines 92-96.
SetCompleted(t) ==
    /\ ~Returning
    /\ pc[t] = "set_completed"
    /\ \/ /\ store' = UpdateItem(store, Task(t).task_id, Task(t).run_at, "completed",
                                 IsoNowZ(clock), "")
          /\ IF "recurrence" \in DOMAIN Task(t)
             THEN /\ pc' = [pc EXCEPT ![t] = "recur"]
                  /\ UNCHANGED <<idx, result>>
             ELSE LoopNext(t, idx[t])
          /\ UNCHANGED <<faults, err>>
       \/ /\ CanDisturb(1)
          /\ faults' = faults + 1
          /\ err' = [err EXCEPT ![t] = "ClientError"]
          /\ pc' = [pc EXCEPT ![t] = "except"]
          /\ UNCHANGED <<store, idx, result>>
    /\ UNCHANGED <<clock, nextId, invocations, inv, utcnow, tasks, pickups,
                   dispatches, deletes, overlapped>>

\* datetime.replace(year=, month=, day=): ValueError when the day does not
\* exist in that month.
ReplaceValid(year, month, day) == day >= 1 /\ day <= DaysInMonth(year, month)

\* schedule_next_occurrence taking every unknown pattern for a yearly one.
NextRunYearly(run_at, recurrence) ==
    LET current_time == Fromisoformat(ReplaceZ(run_at))
    IN  [kind |-> "ok", next_run |-> [current_time EXCEPT !.year = @ + 1]]

\* schedule_next_occurrence, lines 178-192: the next run time, a ValueError out
\* of datetime.replace, or the early return for an unknown pattern.
NextRun(run_at, recurrence) ==
    LET current_time == Fromisoformat(ReplaceZ(run_at))
        target ==
            IF recurrence = "daily"
            THEN [current_time EXCEPT !.day = @ + 1]
            ELSE IF recurrence = "weekly"
            THEN [current_time EXCEPT !.day = @ + 7]
            ELSE IF current_time.month = 12
            THEN [current_time EXCEPT !.year = @ + 1, !.month = 1]
            ELSE [current_time EXCEPT !.month = @ + 1]
    IN  IF recurrence \notin {"daily", "weekly", "monthly"}
        THEN [kind |-> "unsupported"]
        ELSE IF ~ReplaceValid(target.year, target.month, target.day)
        THEN [kind |-> "ValueError"]
        ELSE [kind |-> "ok", next_run |-> target]

\* schedule_next_occurrence, lines 194-208: the item of the next occurrence.
NewTask(task, next_run, now) ==
    LET next_run_at == ReplaceOffset(Isoformat(next_run))
    IN  [task_id |-> task.task_id \o <<next_run_at>>,
         action |-> task.action,
         payload |-> task.payload,
         run_at |-> next_run_at,
         status |-> "scheduled",
         recurrence |-> task.recurrence,
         created_at |-> IsoNowZ(now),
         updated_at |-> IsoNowZ(now),
         parent_task_id |-> task.task_id]

\* schedule_next_occurrence handing the successor to the running loop.
RecurProcessesSuccessor(t) ==
    /\ ~Returning
    /\ pc[t] = "recur"
    /\ LET task == Task(t)
           nr == NextRun(task.run_at, task.recurrence)
       IN  IF nr.kind = "ok"
           THEN /\ store' = PutItem(store, NewTask(task, nr.next_run, clock))
                /\ tasks' = [tasks EXCEPT
                                ![t] = Append(@, NewTask(task, nr.next_run, clock))]
                /\ idx' = [idx EXCEPT ![t] = @ + 1]
                /\ pc' = [pc EXCEPT ![t] = "set_running"]
                /\ UNCHANGED <<err, result>>
           ELSE /\ LoopNext(t, idx[t])
                /\ UNCHANGED <<store, tasks, err>>
    /\ UNCHANGED <<clock, nextId, invocations, faults, inv, utcnow, pickups,
                   dispatches, deletes, overlapped>>

\* execute_task, line 97: schedule_next_occurrence(task).
Recur(t) ==
    /\ ~Returning
    /\ pc[t] = "recur"
    /\ LET task == Task(t)
           nr == NextRun(task.run_at, task.recurrence)
       IN  IF nr.kind = "unsupported"
           THEN /\ LoopNext(t, idx[t])
                /\ UNCHANGED <<store, faults, err>>
           ELSE IF nr.kind = "ValueError"
           THEN /\ err' = [err EXCEPT ![t] = "day is out of range for month"]
                /\ pc' = [pc EXCEPT ![t] = "except"]
                /\ UNCHANGED <<store, faults, idx, result>>
           ELSE \/ /\ store' = PutItem(store, NewTask(task, nr.next_run, clock))
                   /\ LoopNext(t, idx[t])
                   /\ UNCHANGED <<faults, err>>
                \/ /\ CanDisturb(1)
                   /\ faults' = faults + 1
                   /\ err' = [err EXCEPT ![t] = "ClientError"]
                   /\ pc' = [pc EXCEPT ![t] = "except"]
                   /\ UNCHANGED <<store, idx, result>>
    /\ UNCHANGED <<clock, nextId, invocations, inv, utcnow, tasks, pickups,
                   dispatches, deletes, overlapped>>

\* An except clause that puts the task back to 'scheduled' for a retry.
ExceptReschedule(t) ==
    /\ ~Returning
    /\ pc[t] = "except"
    /\ store' = UpdateItem(store, Task(t).task_id, Task(t).run_at, "scheduled",
                           IsoNowZ(clock), err[t])
    /\ err' = [err EXCEPT ![t] = ""]
    /\ LoopNext(t, idx[t])
    /\ UNCHANGED <<clock, nextId, invocations, faults, inv, utcnow, tasks,
                   pickups, dispatches, deletes, overlapped>>

\* An except clause that records the failure and raises again.
ExceptReraise(t) ==
    /\ ~Returning
    /\ pc[t] = "except"
    /\ store' = UpdateItem(store, Task(t).task_id, Task(t).run_at, "failed",
                           IsoNowZ(clock), err[t])
    /\ err' = [err EXCEPT ![t] = ""]
    /\ pc' = [pc EXCEPT ![t] = "done"]
    /\ result' = [result EXCEPT ![t] = [statusCode |-> 500, error |-> err[t]]]
    /\ UNCHANGED <<clock, nextId, invocations, faults, inv, utcnow, tasks, idx,
                   pickups, dispatches, deletes, overlapped>>

\* execute_task, lines 99-101: the except clause.  When its own write raises, the
\* exception leaves execute_task and handler's except clause returns a 500.
Except(t) ==
    /\ ~Returning
    /\ pc[t] = "except"
    /\ \/ /\ store' = UpdateItem(store, Task(t).task_id, Task(t).run_at, "failed",
                                 IsoNowZ(clock), err[t])
          /\ err' = [err EXCEPT ![t] = ""]
          /\ LoopNext(t, idx[t])
          /\ UNCHANGED faults
       \/ /\ CanDisturb(1)
          /\ faults' = faults + 1
          /\ err' = [err EXCEPT ![t] = ""]
          /\ pc' = [pc EXCEPT ![t] = "done"]
          /\ result' = [result EXCEPT ![t] = [statusCode |-> 500, error |-> "ClientError"]]
          /\ UNCHANGED <<store, idx>>
    /\ UNCHANGED <<clock, nextId, invocations, inv, utcnow, tasks, pickups,
                   dispatches, deletes, overlapped>>

\* handler has returned: the invocation ends and its locals are gone.
Return(t) ==
    /\ pc[t] = "done"
    /\ pc' = [pc EXCEPT ![t] = "idle"]
    /\ inv' = [inv EXCEPT ![t] = 0]
    /\ utcnow' = [utcnow EXCEPT ![t] = 0]
    /\ tasks' = [tasks EXCEPT ![t] = <<>>]
    /\ idx' = [idx EXCEPT ![t] = 1]
    /\ err' = [err EXCEPT ![t] = ""]
    /\ result' = [result EXCEPT ![t] = [statusCode |-> 0]]
    /\ UNCHANGED <<store, clock, nextId, invocations, faults, pickups, dispatches,
                   deletes, overlapped>>

(* ----------------------------- environment ----------------------------- *)

\* Time passes.
AdvanceClock ==
    /\ \A t \in Ticks : pc[t] = "idle"
    /\ \E c \in ClockInstants : c > clock /\ clock' = c
    /\ UNCHANGED <<store, nextId, invocations, faults, pc, inv, utcnow, tasks, idx,
                   err, result, pickups, dispatches, deletes, overlapped>>

Init ==
    /\ store = {}
    /\ clock = 0
    /\ nextId = 0
    /\ invocations = 0
    /\ faults = 0
    /\ pc = [t \in Ticks |-> "idle"]
    /\ inv = [t \in Ticks |-> 0]
    /\ utcnow = [t \in Ticks |-> 0]
    /\ tasks = [t \in Ticks |-> <<>>]
    /\ idx = [t \in Ticks |-> 1]
    /\ err = [t \in Ticks |-> ""]
    /\ result = [t \in Ticks |-> [statusCode |-> 0]]
    /\ pickups = {}
    /\ dispatches = {}
    /\ deletes = 0
    /\ overlapped = FALSE

Next ==
    \/ \E body \in Bodies : ScheduleTask(body)
    \/ \E r \in store : DeleteTask(r.task_id)
    \/ AdvanceClock
    \/ \E t \in Ticks : TickStart(t)
    \/ \E t \in Ticks : SetRunning(t)
    \/ \E t \in Ticks : Dispatch(t)
    \/ \E t \in Ticks : SetFailedUnsupported(t)
    \/ \E t \in Ticks : SetCompleted(t)
    \/ \E t \in Ticks : Recur(t)
    \/ \E t \in Ticks : Except(t)
    \/ \E t \in Ticks : Return(t)

Spec == Init /\ [][Next]_vars

(* ------------------- recurrence over the calendar ---------------------- *)

\* A second specification: the table holds one recurring task whose run_at is
\* drawn from dates at the ends and in the middle of months, of a leap year and
\* of a common year, all in the past at the first clock reading; executor
\* invocations process it and the successors they create.
SupportedRecurrence == {"daily", "weekly", "monthly"}

CalendarYears == {2020, 2023}
CalendarMonths == {1, 2, 4, 12}
CalendarDays == {1, 15, 24, 25, 28, 29, 30, 31}

\* 10:00:00Z on each of these dates.
CalendarRunAts ==
    {<<y, m, d, 20, "Z">> : <<y, m, d>> \in
        {c \in CalendarYears \X CalendarMonths \X CalendarDays :
            ReplaceValid(c[1], c[2], c[3])}}

CalendarBodies ==
    {[action |-> a[1], payload |-> a[2], run_at |-> ra, recurrence |-> rec] :
        a \in {<<"message", MessagePayload>>, <<"webhook", WithUrl>>},
        ra \in CalendarRunAts, rec \in SupportedRecurrence}

\* The table after one accepted POST /tasks, with no executor invocation yet.
InitCalendar ==
    /\ \E body \in CalendarBodies :
           store = {[task_id |-> <<1>>,
                     action |-> body.action,
                     payload |-> body.payload,
                     run_at |-> body.run_at,
                     status |-> "scheduled",
                     created_at |-> IsoNowZ(0),
                     updated_at |-> IsoNowZ(0),
                     recurrence |-> body.recurrence]}
    /\ clock = 0
    /\ nextId = 1
    /\ invocations = 0
    /\ faults = 0
    /\ pc = [t \in Ticks |-> "idle"]
    /\ inv = [t \in Ticks |-> 0]
    /\ utcnow = [t \in Ticks |-> 0]
    /\ tasks = [t \in Ticks |-> <<>>]
    /\ idx = [t \in Ticks |-> 1]
    /\ err = [t \in Ticks |-> ""]
    /\ result = [t \in Ticks |-> [statusCode |-> 0]]
    /\ pickups = {}
    /\ dispatches = {}
    /\ deletes = 0
    /\ overlapped = FALSE

NextCalendar ==
    \/ \E t \in Ticks : TickStart(t)
    \/ \E t \in Ticks : SetRunning(t)
    \/ \E t \in Ticks : Dispatch(t)
    \/ \E t \in Ticks : SetCompleted(t)
    \/ \E t \in Ticks : Recur(t)
    \/ \E t \in Ticks : Except(t)
    \/ \E t \in Ticks : Return(t)

SpecCalendar == InitCalendar /\ [][NextCalendar]_vars

(* ----------------------- requests to POST /tasks ----------------------- *)

\* A third specification: requests of every shape reach POST /tasks, and
\* executor invocations process what it stored.  Every run_at is 04:00 on
\* 2024-01-23, due at the first clock reading, written with a trailing Z, with
\* a UTC offset, with no zone, or malformed.
RunAtForms ==
    {<<2024, 1, 23, 8, sfx>> : sfx \in {"Z", "+00:00", "", "not a time"}}

ApiBodies ==
    {[action |-> a[1], payload |-> a[2], run_at |-> ra] :
        a \in {<<"message", MessagePayload>>, <<"webhook", WithUrl>>,
               <<"webhook", NoUrl>>, <<"email", MessagePayload>>},
        ra \in RunAtForms}
    \cup {[action |-> "message", run_at |-> ra] : ra \in RunAtForms}
    \cup {[payload |-> MessagePayload, run_at |-> ra] : ra \in RunAtForms}
    \cup {[action |-> "message", payload |-> MessagePayload]}

NextApi ==
    \/ \E body \in ApiBodies : ScheduleTask(body)
    \/ \E t \in Ticks : TickStart(t)
    \/ \E t \in Ticks : SetRunning(t)
    \/ \E t \in Ticks : Dispatch(t)
    \/ \E t \in Ticks : SetFailedUnsupported(t)
    \/ \E t \in Ticks : SetCompleted(t)
    \/ \E t \in Ticks : Except(t)
    \/ \E t \in Ticks : Return(t)

SpecApi == Init /\ [][NextApi]_vars

(* ------------------------------- claims -------------------------------- *)

Terminal == {"completed", "failed"}

\* No store error, no DELETE request and no overlapping invocations so far.
Undisturbed == faults = 0 /\ deletes = 0 /\ ~overlapped

\* The item execute_task has just returned for in slot t, when there is one.
HasPrev(t) == pc[t] \in {"set_running", "done"} /\ idx[t] > 1
Prev(t) == tasks[t][idx[t] - 1]

\* What the dispatcher reported for an item in the invocation of slot t.
Reports(t, item) ==
    {d[4] : d \in {x \in dispatches :
                      x[1] = item.task_id /\ x[2] = item.run_at /\ x[3] = inv[t]}}

\* C1: a tick writes 'running' for a task, or dispatches it, only if the task's
\* run_at is less than or equal to the real UTC time at which the tick runs.
C1_NeverBeforeRunAt ==
    \A t \in Ticks :
        pc[t] \in {"dispatch", "set_completed", "set_failed_unsupported"}
            => StrLeq(Task(t).run_at, Strftime(UtcNow(clock)))

\* C2: with no store failure and no overlapping ticks, when a tick finishes every
\* task its due query returned has status 'completed' or 'failed'.
C2_DueTasksEndTerminal ==
    \A t \in Ticks :
        (pc[t] = "done" /\ faults = 0 /\ ~overlapped)
            => \A i \in 1..Len(tasks[t]) :
                   \A r \in Lookup(store, tasks[t][i].task_id, tasks[t][i].run_at) :
                       r.status \in Terminal

\* A tick that met no store failure and no other tick finishes with two tasks
\* returned by its query, one ended 'completed' and one 'failed'.
C2_Witness ==
    \E t \in Ticks :
        /\ pc[t] = "done" /\ faults = 0 /\ ~overlapped /\ Len(tasks[t]) = 2
        /\ \E r \in Lookup(store, tasks[t][1].task_id, tasks[t][1].run_at) :
               r.status = "completed"
        /\ \E r \in Lookup(store, tasks[t][2].task_id, tasks[t][2].run_at) :
               r.status = "failed"

\* C3: once a stored task has status 'completed' or 'failed', no step of an
\* executor tick changes any of its fields (here: in runs with no store failure,
\* no DELETE and no overlapping ticks, where the claim fails already).
C3_TerminalImmutable ==
    [][\A r \in store :
          (r.status \in Terminal /\ faults' = 0 /\ deletes' = 0 /\ ~overlapped')
              => r \in store']_vars

\* C4: every change of a stored task's status is scheduled->running,
\* running->completed or running->failed (here: in runs with no DELETE and no
\* overlapping ticks, where the claim fails already).
LegalTransitions ==
    {<<"scheduled", "running">>, <<"running", "completed">>, <<"running", "failed">>}

C4_OnlyLegalTransitions ==
    [][\A r \in store :
          \A n \in Lookup(store', r.task_id, r.run_at) :
              (n.status # r.status /\ deletes' = 0 /\ ~overlapped')
                  => <<r.status, n.status>> \in LegalTransitions]_vars

SameKey(p, q) == p[1] = q[1] /\ p[2] = q[2]

\* The reports of a dispatch that failed.
FailureReports == {"HTTPError", "Webhook URL is required", "Unsupported action type"}

\* No task instance is picked up ('running' written) by two invocations, and
\* none has its request sent by two invocations.
PickedUpOnce ==
    /\ \A p, q \in pickups : SameKey(p, q) => p[3] = q[3]
    /\ \A p, q \in dispatches :
           (SameKey(p, q) /\ {p[4], q[4]} \subseteq {"ok", "HTTPError"}) => p[3] = q[3]

\* C5 as stated: for any interleaving of ticks, overlapping ones included, the
\* same task instance is never picked up or dispatched by two ticks.
C5_NeverPickedUpTwice == PickedUpOnce

\* C5 as amended: when ticks do not overlap, the same task instance is never
\* picked up or dispatched by two ticks.
C5_NeverPickedUpTwiceInSequence == ~overlapped => PickedUpOnce

\* Two ticks in sequence have each picked up a task.
C5_Witness ==
    /\ ~overlapped
    /\ \E p, q \in pickups : p[3] = 1 /\ q[3] = 2

\* C6: whenever the dispatcher reports success for a task, the task's status at
\* the end of execute_task is 'completed' (here: in runs with no store failure,
\* no DELETE and no overlapping ticks, where the claim fails already).
C6_SuccessEndsCompleted ==
    \A t \in Ticks :
        (HasPrev(t) /\ Undisturbed /\ "ok" \in Reports(t, Prev(t)))
            => \A r \in Lookup(store, Prev(t).task_id, Prev(t).run_at) :
                   r.status = "completed"

\* What C7 says of the tasks an invocation has finished with, of its return value
\* and of later pickups.
FailedDispatchIsFinal ==
    /\ \A t \in Ticks : \A i \in 1..(idx[t] - 1) :
           (i <= Len(tasks[t]) /\ Reports(t, tasks[t][i]) \cap FailureReports # {})
               => \A r \in Lookup(store, tasks[t][i].task_id, tasks[t][i].run_at) :
                      /\ r.status = "failed"
                      /\ "error_message" \in DOMAIN r
                      /\ r.error_message # ""
    /\ \A t \in Ticks : pc[t] = "done" => result[t].statusCode = 200
    /\ \A d, e \in dispatches :
           (d[4] \in FailureReports /\ SameKey(d, e)) => e[3] <= d[3]

\* C7 as stated: whenever dispatch of a task fails and the store accepts writes,
\* the task ends the tick 'failed' with a non-empty error_message, the handler
\* does not crash and no later tick dispatches the task again.
C7_FailedDispatchIsFinal == faults = 0 => FailedDispatchIsFinal

\* C7 as amended: the same, for ticks that do not overlap.
C7_FailedDispatchIsFinalInSequence ==
    (faults = 0 /\ ~overlapped) => FailedDispatchIsFinal

\* A second tick has started after one in which a dispatch failed, with the store
\* accepting every write.
C7_Witness ==
    /\ faults = 0 /\ ~overlapped
    /\ \E d \in dispatches : d[3] = 1 /\ d[4] \in FailureReports
    /\ \E t \in Ticks : pc[t] = "done" /\ inv[t] = 2

\* C8: a dispatch failure or unexpected error while processing one task never
\* keeps another task the query returned from being processed in the same tick,
\* and the tick returns its success summary.
C8_FailureIsolation ==
    \A t \in Ticks :
        (pc[t] = "done" /\ faults = 0)
            => /\ result[t].statusCode = 200
               /\ result[t].processed = Len(tasks[t])
               /\ \A i \in 1..Len(tasks[t]) :
                      /\ <<tasks[t][i].task_id, tasks[t][i].run_at, inv[t]>> \in pickups
                      /\ Reports(t, tasks[t][i]) # {}

\* A tick ends whose first task failed at dispatch and whose second task was
\* dispatched all the same.
C8_Witness ==
    \E t \in Ticks :
        /\ pc[t] = "done" /\ faults = 0 /\ Len(tasks[t]) = 2
        /\ Reports(t, tasks[t][1]) \cap FailureReports # {}
        /\ "ok" \in Reports(t, tasks[t][2])

\* C9: when a status write fails, the tick skips that task, processes every
\* remaining due task and returns the normal summary, and the task keeps the
\* status it had before the failed write.
C9_StoreFailureSkipsTask ==
    /\ \A t \in Ticks :
           (pc[t] = "done" /\ Len(tasks[t]) > 0)
               => result[t].statusCode = 200 /\ idx[t] = Len(tasks[t]) + 1
    /\ \A t \in Ticks :
           (HasPrev(t) /\ deletes = 0 /\ ~overlapped
            /\ <<Prev(t).task_id, Prev(t).run_at, inv[t]>> \notin pickups)
               => \A r \in Lookup(store, Prev(t).task_id, Prev(t).run_at) :
                      r.status = "scheduled"

\* C10: when a task with recurrence daily, weekly or monthly reaches 'completed',
\* the store holds a 'scheduled' successor whose parent_task_id is the task's id
\* and whose action, payload and recurrence are the task's (here: in runs with no
\* store failure, no DELETE and no overlapping ticks, where the claim fails
\* already).
C10_CompletedRecurringHasSuccessor ==
    \A t \in Ticks :
        (/\ HasPrev(t) /\ Undisturbed
         /\ "ok" \in Reports(t, Prev(t))
         /\ "recurrence" \in DOMAIN Prev(t)
         /\ Prev(t).recurrence \in {"daily", "weekly", "monthly"})
            => \E r \in store :
                   /\ "parent_task_id" \in DOMAIN r
                   /\ r.parent_task_id = Prev(t).task_id
                   /\ r.status = "scheduled"
                   /\ r.action = Prev(t).action
                   /\ r.payload = Prev(t).payload
                   /\ r.recurrence = Prev(t).recurrence

\* The stored successors of a task: the items whose parent_task_id is its id.
Successors(p) ==
    {r \in store : "parent_task_id" \in DOMAIN r /\ r.parent_task_id = p.task_id}

\* A stored task has at most one successor, and has one only if it is
\* 'completed'; a successor carries a supported recurrence, which is its
\* parent's whenever the parent's record has one.
SuccessorOnlyOfCompleted ==
    \A p \in store :
        /\ Cardinality(Successors(p)) <= 1
        /\ \A s \in Successors(p) :
               /\ p.status = "completed"
               /\ s.recurrence \in SupportedRecurrence
               /\ "recurrence" \in DOMAIN p => p.recurrence = s.recurrence

Expand(tbl, task, now) ==
    PutItem(tbl, NewTask(task, NextRun(task.run_at, task.recurrence).next_run, now))

\* The stored tasks schedule_next_occurrence computes a next run time for.
Expandable ==
    {p \in store : /\ {"action", "payload", "recurrence"} \subseteq DOMAIN p
                   /\ NextRun(p.run_at, p.recurrence).kind = "ok"}

\* The records of a table for a parent id and a run_at.
SuccessorsAt(tbl, parent_id, run_at) ==
    {r \in tbl : /\ "parent_task_id" \in DOMAIN r
                 /\ r.parent_task_id = parent_id
                 /\ r.run_at = run_at}

\* C12: running schedule_next_occurrence twice for the same parent (now, and
\* again now or later) gives the same
\* successor task_id and run_at both times, and the store then holds exactly one
\* successor record for (parent task_id, next run_at), as after running it once;
\* every stored successor has the task_id derived from its parent and run_at.
C12_ExpansionIdempotent ==
    /\ \A p \in Expandable : \A later \in {c \in ClockInstants : c >= clock} :
           LET nr     == NextRun(p.run_at, p.recurrence).next_run
               first  == NewTask(p, nr, clock)
               second == NewTask(p, nr, later)
               once   == Expand(store, p, clock)
               twice  == Expand(once, p, later)
           IN  /\ first.task_id = second.task_id
               /\ first.run_at = second.run_at
               /\ Cardinality(SuccessorsAt(once, p.task_id, first.run_at)) = 1
               /\ Cardinality(SuccessorsAt(twice, p.task_id, first.run_at)) = 1
               /\ twice \ SuccessorsAt(twice, p.task_id, first.run_at)
                      = once \ SuccessorsAt(once, p.task_id, first.run_at)
    /\ \A s \in store :
           "parent_task_id" \in DOMAIN s
               => /\ s.task_id = s.parent_task_id \o <<s.run_at>>
                  /\ Cardinality(SuccessorsAt(store, s.parent_task_id, s.run_at)) = 1

\* Two invocations have both dispatched the same recurring task successfully and
\* both have ended, so that schedule_next_occurrence ran twice for it, and the
\* store holds its successor.
C12_Witness ==
    /\ faults = 0 /\ deletes = 0
    /\ \A t \in Ticks : pc[t] \in {"idle", "done"}
    /\ \E d, e \in dispatches :
           /\ SameKey(d, e) /\ d[3] # e[3] /\ d[4] = "ok" /\ e[4] = "ok"
           /\ \E p \in Expandable :
                  /\ p.task_id = d[1] /\ p.run_at = d[2]
                  /\ Successors(p) # {}

\* The run_at string of a datetime in the form the successor is stored with.
RunAtOf(dt) == <<dt.year, dt.month, dt.day, dt.slot, "Z">>

\* The invocation of slot t has just finished, with no store error, DELETE or
\* overlap, a task of recurrence rec whose dispatch succeeded.
FinishedRecurring(t, rec) ==
    /\ HasPrev(t) /\ Undisturbed
    /\ "ok" \in Reports(t, Prev(t))
    /\ "recurrence" \in DOMAIN Prev(t)
    /\ Prev(t).recurrence = rec

\* The run_at values of the stored successors of a task.
SuccessorRunAts(task) == {r.run_at : r \in Successors(task)}

\* C13: the successor time of a 'daily' task is the next calendar day and that
\* of a 'weekly' task the date 7 calendar days later, at the same time of day,
\* month and year ends rolled over, for every day-of-month of the source.
C13_DailyWeeklyCalendar ==
    \A t \in Ticks :
        /\ FinishedRecurring(t, "daily")
               => SuccessorRunAts(Prev(t))
                      = {RunAtOf(AddDays(Fromisoformat(ReplaceZ(Prev(t).run_at)), 1))}
        /\ FinishedRecurring(t, "weekly")
               => SuccessorRunAts(Prev(t))
                      = {RunAtOf(AddDays(Fromisoformat(ReplaceZ(Prev(t).run_at)), 7))}

\* The month after that of a datetime, with the day cut to the month's length.
MonthLater(dt) ==
    LET y == IF dt.month = 12 THEN dt.year + 1 ELSE dt.year
        m == IF dt.month = 12 THEN 1 ELSE dt.month + 1
        d == IF dt.day <= DaysInMonth(y, m) THEN dt.day ELSE DaysInMonth(y, m)
    IN  [dt EXCEPT !.year = y, !.month = m, !.day = d]

\* C14: the successor time of a 'monthly' task has the same day-of-month and
\* time of day in the following month, December rolling into January of the
\* next year, and is the last valid day of the target month when that day does
\* not exist in it.
C14_MonthlyCalendar ==
    \A t \in Ticks :
        FinishedRecurring(t, "monthly")
            => SuccessorRunAts(Prev(t))
                   = {RunAtOf(MonthLater(Fromisoformat(ReplaceZ(Prev(t).run_at))))}

\* The action values the executor dispatches.
KnownActions == {"webhook", "message"}

\* A task the executor can dispatch: a known action, and a url for a webhook.
Dispatchable(task) ==
    /\ task.action \in KnownActions
    /\ task.action = "webhook" => "url" \in DOMAIN task.payload

\* C15: POST /tasks stores a task only if the request passes validation, an
\* unrecognised action or a webhook payload without url included, so the
\* executor never observes a stored task with an unknown action or a webhook
\* task without url.
C15_OnlyValidTasksStored ==
    /\ \A r \in store : "action" \in DOMAIN r => Dispatchable(r)
    /\ \A t \in Ticks : \A i \in 1..Len(tasks[t]) : Dispatchable(tasks[t][i])

\* C19: every run_at that POST /tasks accepts and stores is in the canonical
\* form, with a trailing Z; one given with a UTC offset or without Z is never
\* stored as given.
C19_RunAtCanonical == \A r \in store : r.run_at[5] = "Z"

\* C16: a tick whose due query returns zero tasks writes nothing to the store,
\* dispatches nothing and returns a success result with processed = 0; the
\* processed count a tick reports is the number of tasks its query returned.
C16_ProcessedCount ==
    [][\A t \in Ticks :
          /\ (pc[t] = "idle" /\ pc'[t] # "idle" /\ faults' = faults /\ tasks'[t] = <<>>)
                 => /\ pc'[t] = "done"
                    /\ result'[t].statusCode = 200
                    /\ result'[t].processed = 0
                    /\ store' = store
                    /\ pickups' = pickups
                    /\ dispatches' = dispatches
          /\ (pc[t] = "done" /\ pc'[t] = "idle")
                 => store' = store /\ pickups' = pickups /\ dispatches' = dispatches
          /\ (pc'[t] = "done" /\ "processed" \in DOMAIN result'[t])
                 => /\ result'[t].statusCode = 200
                    /\ result'[t].processed = Len(tasks'[t])]_vars

\* A tick has reported two processed tasks, one that ended 'failed' and one that
\* ended 'completed', and a later tick has found nothing due and reported 0.
C16_Witness ==
    /\ \E t \in Ticks :
           /\ pc[t] = "done" /\ inv[t] = 2
           /\ tasks[t] = <<>> /\ result[t].statusCode = 200
    /\ \E p, q \in pickups : p[3] = 1 /\ q[3] = 1 /\ ~SameKey(p, q)
    /\ \E r \in store : r.status = "failed"
    /\ \E r \in store : r.status = "completed"

StatusFields == {"status", "updated_at", "error_message"}

\* Item new is item old with nothing but status fields changed.
SameButStatus(old, new) ==
    /\ DOMAIN new \ StatusFields = DOMAIN old \ StatusFields
    /\ \A a \in DOMAIN old \ StatusFields : new[a] = old[a]

\* The invocation of slot t takes a step that calls update_task_status.
StatusWriteStep(t) ==
    /\ pc[t] \in {"set_running", "set_failed_unsupported", "set_completed", "except"}
    /\ pc'[t] # pc[t]

\* C18: a status write changes only the status, updated_at and error_message of
\* the task addressed by (task_id, run_at) and leaves every other task as it was;
\* when no task with that key exists it creates no record.
C18_StatusWriteFrame ==
    [][\A t \in Ticks :
          StatusWriteStep(t)
              => \A new \in store' :
                     \/ new \in store
                     \/ /\ new.task_id = Task(t).task_id
                        /\ new.run_at = Task(t).run_at
                        /\ \E old \in Lookup(store, new.task_id, new.run_at) :
                               SameButStatus(old, new)]_vars

\* A stored task carries an error_message only if its status is 'failed'.
ErrorMessageOnlyOnFailed ==
    \A r \in store : "error_message" \in DOMAIN r => r.status = "failed"

PickedUp(t) == <<Task(t).task_id, Task(t).run_at, inv[t]>> \in pickups

\* C21: for each task a tick processes, the 'running' write precedes the
\* dispatch, the dispatch precedes the terminal write, the successor is inserted
\* only after the 'completed' write, and no dispatch is performed for a task
\* whose 'running' write has not succeeded.
C21_StepOrder ==
    [][\A t \in Ticks :
          \* the 'running' write: nothing dispatched for the task in this tick yet
          /\ (pc[t] = "set_running" /\ pc'[t] # "set_running")
                 => Reports(t, Task(t)) = {} /\ ~PickedUp(t)
          \* the dispatch: 'running' is written, no terminal write has followed
          /\ (pc[t] = "dispatch" /\ pc'[t] # "dispatch")
                 => /\ PickedUp(t)
                    /\ Reports(t, Task(t)) = {}
                    /\ dispatches' # dispatches
                    /\ store' = store
                    /\ ~overlapped
                           => \A r \in Lookup(store, Task(t).task_id, Task(t).run_at) :
                                  r.status = "running"
          \* a terminal write: the dispatch was made, unless 'running' was not written
          /\ (StatusWriteStep(t) /\ pc[t] # "set_running" /\ store' # store)
                 => /\ PickedUp(t) => Reports(t, Task(t)) # {}
                    /\ pc[t] = "set_completed" => "ok" \in Reports(t, Task(t))
          \* the successor insert: 'completed' is written
          /\ (pc[t] = "recur" /\ store' # store)
                 => /\ PickedUp(t)
                    /\ "ok" \in Reports(t, Task(t))
                    /\ ~overlapped
                           => \A r \in Lookup(store, Task(t).task_id, Task(t).run_at) :
                                  r.status = "completed"
          \* no dispatch without the 'running' write of the same invocation
          /\ \A d \in dispatches' : <<d[1], d[2], d[3]>> \in pickups']_vars

\* A tick has taken a recurring task through all four steps: 'running' written,
\* dispatched, 'completed' written, successor stored.
C21_Witness ==
    \E t \in Ticks :
        /\ HasPrev(t) /\ faults = 0
        /\ <<Prev(t).task_id, Prev(t).run_at, inv[t]>> \in pickups
        /\ "ok" \in Reports(t, Prev(t))
        /\ \E r \in Lookup(store, Prev(t).task_id, Prev(t).run_at) :
               r.status = "completed" /\ Successors(r) # {}

\* C22: with no store failure, no DELETE and no crash, a task created with
\* status 'scheduled' reaches 'completed' or 'failed' in the first tick whose
\* query runs after its run_at has elapsed: while the wall clock (UTC) has not
\* reached a task's run_at, the task is not terminal yet.
C22_TerminalOnceRunAtElapsed ==
    (faults = 0 /\ deletes = 0)
        => \A r \in store :
               r.status \in Terminal => StrLeq(r.run_at, Strftime(UtcNow(clock)))

\* The keys of the items the query of the invocation in slot t returned.
Selected(t) == {<<tasks[t][i].task_id, tasks[t][i].run_at>> : i \in 1..Len(tasks[t])}

\* C23: when ticks do not overlap, every task instance is dispatched at most
\* once over any sequence of ticks, creates, deletes and store failures: once a
\* tick has dispatched a (task_id, run_at) instance, no later tick selects it or
\* dispatches it.
C23_DispatchedAtMostOnce ==
    ~overlapped
        => /\ \A d, e \in dispatches : SameKey(d, e) => d[3] = e[3]
           /\ \A t \in Ticks : \A d \in dispatches :
                  (inv[t] # 0 /\ <<d[1], d[2]>> \in Selected(t)) => d[3] = inv[t]

\* After a tick that dispatched a task which is still stored, a later tick, not
\* overlapping it, has selected and dispatched another task.
C23_Witness ==
    /\ ~overlapped
    /\ \E d, e \in dispatches :
           /\ d[3] = 1 /\ e[3] = 2
           /\ Lookup(store, d[1], d[2]) # {}

\* C24: a tick writes 'running' on, and dispatches, only tasks its one due query
\* returned: a successor its own expansion stored, even one already due, or a
\* task created meanwhile through POST /tasks is not processed by that tick, and
\* no tick processes both a task and that task's successor.
C24_SnapshotOnly ==
    /\ \A t \in Ticks : inv[t] # 0 =>
           /\ \A p \in pickups : p[3] = inv[t] => <<p[1], p[2]>> \in Selected(t)
           /\ \A d \in dispatches : d[3] = inv[t] => <<d[1], d[2]>> \in Selected(t)
    /\ \A p, q \in pickups : p[3] = q[3] => q[1] # p[1] \o <<q[2]>>
    /\ \A p, q \in dispatches : p[3] = q[3] => q[1] # p[1] \o <<q[2]>>

\* A tick has ended while the store holds a scheduled successor of a task it
\* processed, due at the tick's now, that the tick did not touch.
C24_Witness ==
    \E t \in Ticks :
        /\ pc[t] = "done" /\ faults = 0
        /\ \E r \in store :
               /\ "parent_task_id" \in DOMAIN r
               /\ r.status = "scheduled"
               /\ StrLeq(r.run_at, CurrentTime(utcnow[t]))
               /\ \E i \in 1..Len(tasks[t]) : tasks[t][i].task_id = r.parent_task_id
               /\ <<r.task_id, r.run_at>> \notin Selected(t)

====
